---- MODULE Spec2Model ----
(***************************************************************************)
(* skill-manager (src/src/index.js): the repository scanner, the category  *)
(* grouper and the installer, over an explicit model of the filesystem.    *)
(*                                                                         *)
(* A string is the sequence of its UTF-16 code units, so that the default  *)
(* Array.prototype.sort order and the '/'-joined category are computed and *)
(* not assumed.  A filesystem path is the sequence of its segments (the    *)
(* POSIX reading of path.join on a directory and an entry name).           *)
(***************************************************************************)
EXTENDS Naturals, Integers, Sequences, FiniteSets, TLC

VARIABLES
    fs,              \* the filesystem: existing path -> node
    listing,         \* the order in which readdir returns entry names
    repositoryPath,  \* config.repositoryPath
    pc,              \* where main() is; "exit0" and "exit1" are process.exit codes
    availableSkills, \* the array scanSkills returned
    scanErrors,      \* directories console.error reported during the scan
    choices,         \* the choices array built for the checkbox prompt
    selectedSkills,  \* the prompt's answer
    idx,             \* index of the next skill in installSkills' loop (1-based)
    ops,             \* fs.remove / fs.copy calls made by installSkills
    out,             \* console.log lines of installSkills
    errorMessage,    \* what main().catch printed
    run,             \* which call of installSkills this is
    fsAtInstall,     \* fs when installSkills was first entered
    fsAfterFirst     \* fs when the first installSkills call returned

vars == <<fs, listing, repositoryPath, pc, availableSkills, scanErrors, choices,
          selectedSkills, idx, ops, out, errorMessage, run,
          fsAtInstall, fsAfterFirst>>

------------------------------------------------------------------------------
(* Strings *)

Slash == <<47>>
Space == <<32>>
\* 'skill.md'
SkillMd == <<115,107,105,108,108,46,109,100>>
\* 'No description'
NoDescription == <<78,111,32,100,101,115,99,114,105,112,116,105,111,110>>
\* '...'
Ellipsis == <<46,46,46>>
\* 'Uncategorized'
Uncategorized == <<85,110,99,97,116,101,103,111,114,105,122,101,100>>
\* '.claude/skills', as the two segments path.join makes of it
CLAUDE_SKILLS_DIR == << <<46,99,108,97,117,100,101>>, <<115,107,105,108,108,115>> >>

\* String.prototype.trim, on the whitespace the model's descriptors use.
RECURSIVE TrimLeft(_)
TrimLeft(s) == IF s # <<>> /\ Head(s) = 32 THEN TrimLeft(Tail(s)) ELSE s

RECURSIVE TrimRight(_)
TrimRight(s) ==
    IF s # <<>> /\ s[Len(s)] = 32 THEN TrimRight(SubSeq(s, 1, Len(s) - 1)) ELSE s

Trim(s) == TrimRight(TrimLeft(s))

\* a < b in the order of Array.prototype.sort without a comparator:
\* code unit by code unit, a proper prefix first.
RECURSIVE StringLess(_, _)
StringLess(s, t) ==
    IF t = <<>> THEN FALSE
    ELSE IF s = <<>> THEN TRUE
    ELSE IF Head(s) # Head(t) THEN Head(s) < Head(t)
    ELSE StringLess(Tail(s), Tail(t))

------------------------------------------------------------------------------
(* The filesystem *)

NoContent == <<>>

DirNode(readable) == [kind |-> "dir", content |-> NoContent, readable |-> readable]
FileNode(content, readable) == [kind |-> "file", content |-> content, readable |-> readable]

IsPrefix(p, q) == Len(p) <= Len(q) /\ SubSeq(q, 1, Len(p)) = p

Parent(p) == SubSeq(p, 1, Len(p) - 1)

Last(p) == p[Len(p)]

\* fs.pathExists: true for a file or a directory, never throws.
PathExists(f, p) == p \in DOMAIN f

IsDirectory(f, p) == p \in DOMAIN f /\ f[p].kind = "dir"

\* fs.readdir succeeds on an existing directory the process may read.
CanReaddir(f, p) == IsDirectory(f, p) /\ f[p].readable

\* fs.readFile succeeds on an existing regular file the process may read.
CanReadFile(f, p) == p \in DOMAIN f /\ f[p].kind = "file" /\ f[p].readable

\* The entry names of directory p, in the order readdir returns them.
Entries(f, order, p) ==
    SelectSeq(order, LAMBDA n : Append(p, n) \in DOMAIN f)

\* The tree below p, by path relative to p.
Subtree(f, p) ==
    LET rel == {SubSeq(q, Len(p) + 1, Len(q)) : q \in {x \in DOMAIN f : IsPrefix(p, x)}}
    IN  [r \in rel |-> f[p \o r]]

------------------------------------------------------------------------------
(* Metadata extraction, index.js 77-85 and 89 *)

MaxDescriptionLength == 50
TruncatedPrefixLength == 47

NoMatch == [found |-> FALSE, text |-> <<>>]

\* content.match(/^#?\s*<key>:\s*(.+)$/m): a descriptor is the sequence of its
\* lines, a line the field keyword it starts with ("text" for none) and what
\* follows the colon; the first line of the keyword matches.
RECURSIVE MatchField(_, _)
MatchField(content, key) ==
    IF content = <<>> THEN NoMatch
    ELSE IF Head(content).key = key
         THEN [found |-> TRUE, text |-> Head(content).value]
         ELSE MatchField(Tail(content), key)

\* descMatch ? descMatch[1].trim() : 'No description'
ExtractDescription(content) ==
    LET descMatch == MatchField(content, "description")
    IN  IF descMatch.found THEN Trim(descMatch.text) ELSE NoDescription

\* nameMatch ? nameMatch[1].trim() : entry.name
ExtractDisplayName(content, entryName) ==
    LET nameMatch == MatchField(content, "name")
    IN  IF nameMatch.found THEN Trim(nameMatch.text) ELSE entryName

TruncateCutsAt50(description) ==
    IF Len(description) > MaxDescriptionLength
    THEN SubSeq(description, 1, MaxDescriptionLength) \o Ellipsis
    ELSE description

\* if (description.length > 50) description = description.substring(0, 47) + '...'
Truncate(description) ==
    IF Len(description) > MaxDescriptionLength
    THEN SubSeq(description, 1, TruncatedPrefixLength) \o Ellipsis
    ELSE description

------------------------------------------------------------------------------
(* scanDirectory, index.js 65-106 *)

NewCategoryAlwaysJoins(category, entryName) == category \o Slash \o entryName

\* category ? path.join(category, entry.name) : entry.name
NewCategory(category, entryName) ==
    IF category # <<>> THEN category \o Slash \o entryName ELSE entryName

SkillRecord(f, fullPath, category) ==
    LET content == f[Append(fullPath, SkillMd)].content
    IN  [name        |-> Last(fullPath),
         displayName |-> ExtractDisplayName(content, Last(fullPath)),
         description |-> Truncate(ExtractDescription(content)),
         category    |-> category,
         path        |-> fullPath]

EmptyScan == [skills |-> <<>>, errors |-> <<>>]

CatchDropsSkills(acc, dirPath) ==
    [skills |-> <<>>, errors |-> Append(acc.errors, dirPath)]

\* catch (error) { console.error(`Error scanning directory ${dirPath}:`...) }
\* and then `return skills`: what was pushed before the throw is kept.
CatchScanError(acc, dirPath) ==
    [acc EXCEPT !.errors = Append(@, dirPath)]

RECURSIVE ScanDirectory(_, _, _, _, _)
RECURSIVE ScanEntries(_, _, _, _, _, _)

\* The for loop over entries, 69-100.  A throw of readFile leaves the loop for
\* the catch of the enclosing scanDirectory call.
ScanEntries(f, order, dirPath, category, entries, acc) ==
    IF entries = <<>> THEN acc
    ELSE LET fullPath == Append(dirPath, Head(entries))
             skillMdPath == Append(fullPath, SkillMd)
         IN  IF ~IsDirectory(f, fullPath)
             THEN ScanEntries(f, order, dirPath, category, Tail(entries), acc)
             ELSE IF PathExists(f, skillMdPath)
             THEN IF CanReadFile(f, skillMdPath)
                  THEN ScanEntries(f, order, dirPath, category, Tail(entries),
                           [acc EXCEPT !.skills =
                               Append(@, SkillRecord(f, fullPath, category))])
                  ELSE CatchScanError(acc, dirPath)
             ELSE ScanEntries(f, order, dirPath, category, Tail(entries),
                      ScanDirectory(f, order, fullPath,
                          NewCategory(category, Head(entries)), acc))

ScanDirectory(f, order, dirPath, category, acc) ==
    IF CanReaddir(f, dirPath)
    THEN ScanEntries(f, order, dirPath, category, Entries(f, order, dirPath), acc)
    ELSE CatchScanError(acc, dirPath)

ScanSkillsRootFirst(f, order, root) ==
    IF CanReadFile(f, Append(root, SkillMd))
    THEN [skills |-> << [SkillRecord(f, root, <<>>) EXCEPT !.name = Last(root)] >>,
          errors |-> <<>>]
    ELSE ScanDirectory(f, order, root, <<>>, EmptyScan)

\* scanSkills, index.js 111-113
ScanSkills(f, order, root) == ScanDirectory(f, order, root, <<>>, EmptyScan)

------------------------------------------------------------------------------
(* Grouping for display, index.js 171-196 *)

\* The property names a `{}` literal inherits from Object.prototype: reading
\* one of them on the object yields a function or an object, never undefined.
ObjectPrototypeKeys ==
    { <<99,111,110,115,116,114,117,99,116,111,114>>,                  \* constructor
      <<95,95,112,114,111,116,111,95,95>>,                            \* __proto__
      <<116,111,83,116,114,105,110,103>>,                             \* toString
      <<116,111,76,111,99,97,108,101,83,116,114,105,110,103>>,        \* toLocaleString
      <<118,97,108,117,101,79,102>>,                                  \* valueOf
      <<104,97,115,79,119,110,80,114,111,112,101,114,116,121>>,       \* hasOwnProperty
      <<105,115,80,114,111,116,111,116,121,112,101,79,102>>,          \* isPrototypeOf
      <<112,114,111,112,101,114,116,121,73,115,69,110,117,109,101,114,97,98,108,101>>,
      <<95,95,100,101,102,105,110,101,71,101,116,116,101,114,95,95>>, \* __defineGetter__
      <<95,95,100,101,102,105,110,101,83,101,116,116,101,114,95,95>>, \* __defineSetter__
      <<95,95,108,111,111,107,117,112,71,101,116,116,101,114,95,95>>, \* __lookupGetter__
      <<95,95,108,111,111,107,117,112,83,101,116,116,101,114,95,95>> }

\* skill.category || 'Uncategorized'
CategoryLabel(category) == IF category # <<>> THEN category ELSE Uncategorized

EmptyObject == [k \in {} |-> <<>>]

\* The loop 173-179 over the own properties `obj` of skillsByCategory.  For a
\* label Object.prototype defines, skillsByCategory[category] is truthy without
\* being an array, the initialisation is skipped and .push is not a function:
\* the TypeError rejects main().
RECURSIVE GroupByCategory(_, _)
GroupByCategory(skills, obj) ==
    IF skills = <<>> THEN [threw |-> FALSE, groups |-> obj]
    ELSE LET category == CategoryLabel(Head(skills).category)
         IN  IF category \in DOMAIN obj
             THEN GroupByCategory(Tail(skills),
                      [obj EXCEPT ![category] = Append(@, Head(skills))])
             ELSE IF category \in ObjectPrototypeKeys
             THEN [threw |-> TRUE, groups |-> obj]
             ELSE GroupByCategory(Tail(skills), obj @@ (category :> <<Head(skills)>>))

\* Object.keys(skillsByCategory).sort()
RECURSIVE SortedKeys(_)
SortedKeys(keys) ==
    IF keys = {} THEN <<>>
    ELSE LET k == CHOOSE x \in keys : \A y \in keys : x = y \/ StringLess(x, y)
         IN  <<k>> \o SortedKeys(keys \ {k})

\* String.prototype.padEnd(n) with spaces
RECURSIVE PadEnd(_, _)
PadEnd(s, n) == IF Len(s) >= n THEN s ELSE PadEnd(s \o Space, n)

Separator(category) == [kind |-> "separator", label |-> category]

\* { name: `  ${displayName.padEnd(30)} ${description}`, value: skill, short }
Choice(skill) ==
    [kind  |-> "choice",
     name  |-> Space \o Space \o PadEnd(skill.displayName, 30) \o Space \o skill.description,
     value |-> skill,
     short |-> skill.displayName]

RECURSIVE ChoicesOf(_, _)
ChoicesOf(groups, sortedCategories) ==
    IF sortedCategories = <<>> THEN <<>>
    ELSE LET category == Head(sortedCategories)
             items == [i \in 1..Len(groups[category]) |-> Choice(groups[category][i])]
         IN  <<Separator(category)>> \o items
                 \o ChoicesOf(groups, Tail(sortedCategories))

BuildChoices(groups) == ChoicesOf(groups, SortedKeys(DOMAIN groups))

------------------------------------------------------------------------------
(* Filesystems the program may be started on *)

MaxDirs == 3
MaxRepoDirs == 4

\* 'a', 'b': the directory names of the generated repositories
NameSet == { <<97>>, <<98>> }

\* 'r': a repository outside the working directory
ExternalRepo == << <<114>> >>

\* process.cwd(), the root of the modelled filesystem
TargetDir == << >>

\* path.join(targetDir, CLAUDE_SKILLS_DIR)
TargetPath == TargetDir \o CLAUDE_SKILLS_DIR

\* The sets of at most n directories (paths relative to the repository root)
\* that are closed under taking the parent.
RECURSIVE TreesUpTo(_)
TreesUpTo(n) ==
    IF n = 0 THEN {{}}
    ELSE LET T == TreesUpTo(n - 1)
         IN  T \cup UNION { { t \cup {Append(p, x)} : p \in t \cup {<<>>}, x \in NameSet }
                            : t \in T }

Ancestors(p) == { SubSeq(p, 1, k) : k \in 0..Len(p) }

RECURSIVE JoinPath(_)
JoinPath(p) ==
    IF p = <<>> THEN <<>>
    ELSE IF Len(p) = 1 THEN p[1]
    ELSE p[1] \o Slash \o JoinPath(Tail(p))

\* The skill.md written in directory dir: a heading, a name line and a
\* description line that tell the skills of one repository apart.
DescriptorOf(dir) ==
    << [key |-> "text", value |-> <<35>>],
       [key |-> "name", value |-> Space \o Last(dir) \o Space],
       [key |-> "description", value |-> JoinPath(dir)] >>

\* A repository at root with the directories D and a skill.md in each of S.
\* faults.unreadable: the paths whose read permission is withdrawn;
\* faults.asDirectory: the skill.md entries that are directories.
MkRepo(root, D, S, faults) ==
    LET dirs  == Ancestors(root) \cup { root \o d : d \in D }
        files == { Append(root \o d, SkillMd) : d \in S }
    IN  [p \in dirs \cup files |->
            IF p \in dirs THEN DirNode(p \notin faults.unreadable)
            ELSE IF p \in faults.asDirectory THEN DirNode(TRUE)
            ELSE FileNode(DescriptorOf(Parent(p)), p \notin faults.unreadable)]

NoFaults == [unreadable |-> {}, asDirectory |-> {}]

\* At most one unreadable directory, and at most one descriptor that cannot be
\* read: for want of permission, or because skill.md is a directory.
FaultSets(root, D, S) ==
    LET dirFaults  == {{}} \cup { {root \o d} : d \in D \cup {<<>>} }
        fileFaults == { {Append(root \o d, SkillMd)} : d \in S }
    IN  { [unreadable |-> x, asDirectory |-> {}] : x \in dirFaults }
        \cup { [unreadable |-> x \cup y, asDirectory |-> {}] : x \in dirFaults, y \in fileFaults }
        \cup { [unreadable |-> x, asDirectory |-> y] : x \in dirFaults, y \in fileFaults }

\* Every order of the names in S
RECURSIVE Orders(_)
Orders(S) ==
    IF S = {} THEN {<<>>}
    ELSE UNION { { <<x>> \o o : o \in Orders(S \ {x}) } : x \in S }

\* readdir orders: any order of the directory names; files follow (the scanner
\* skips them, the installer does not depend on their order)
Listings == { o \o <<SkillMd>> : o \in Orders(NameSet) }

NoError == [kind |-> "none", path |-> <<>>]

InitProgram ==
    /\ pc = "start"
    /\ availableSkills = <<>>
    /\ scanErrors = <<>>
    /\ choices = <<>>
    /\ selectedSkills = <<>>
    /\ idx = 1
    /\ ops = <<>>
    /\ out = <<>>
    /\ errorMessage = NoError
    /\ run = 1
    /\ fsAtInstall = fs
    /\ fsAfterFirst = fs

\* Scanning: any repository of at most MaxDirs directories, any placement of
\* descriptors (the root included), any listing order, with read faults; or a
\* configured path that no longer exists.
InitScan ==
    /\ repositoryPath = ExternalRepo
    /\ listing \in Listings
    /\ \/ \E D \in TreesUpTo(MaxDirs) : \E S \in SUBSET (D \cup {<<>>}) :
            \E U \in FaultSets(ExternalRepo, D, S) :
                fs = MkRepo(ExternalRepo, D, S, U)
       \/ fs = MkRepo(TargetDir, {}, {}, NoFaults)
    /\ InitProgram

------------------------------------------------------------------------------
(* main, index.js 143-220 *)

\* 152-169: validate the repository path, scan, stop when nothing was found
Main_Scan ==
    /\ pc = "start"
    /\ IF ~PathExists(fs, repositoryPath)
       THEN /\ pc' = "exit1"
            /\ UNCHANGED <<availableSkills, scanErrors>>
       ELSE LET r == ScanSkills(fs, listing, repositoryPath)
            IN  /\ availableSkills' = r.skills
                /\ scanErrors' = r.errors
                /\ pc' = IF Len(r.skills) = 0 THEN "exit0" ELSE "scanned"
    /\ UNCHANGED <<fs, listing, repositoryPath, choices, selectedSkills, idx, ops,
                   out, errorMessage, run, fsAtInstall, fsAfterFirst>>

\* 171-196: group by category and build the choices; a TypeError thrown here
\* reaches main().catch, which prints it and exits with 1
Main_Group ==
    /\ pc = "scanned"
    /\ LET g == GroupByCategory(availableSkills, EmptyObject)
       IN  IF g.threw
           THEN /\ pc' = "exit1"
                /\ errorMessage' = [kind |-> "TypeError", path |-> <<>>]
                /\ UNCHANGED choices
           ELSE /\ pc' = "prompt"
                /\ choices' = BuildChoices(g.groups)
                /\ UNCHANGED errorMessage
    /\ UNCHANGED <<fs, listing, repositoryPath, availableSkills, scanErrors,
                   selectedSkills, idx, ops, out, run, fsAtInstall, fsAfterFirst>>

\* The values of the choices at the positions in picked, in choices order:
\* what the checkbox prompt answers.
RECURSIVE Picked(_, _, _)
Picked(items, picked, i) ==
    IF i > Len(items) THEN <<>>
    ELSE (IF i \in picked /\ items[i].kind = "choice" THEN <<items[i].value>> ELSE <<>>)
             \o Picked(items, picked, i + 1)

\* 198-216: the prompt returns a non-empty selection (validate rejects an empty
\* one); a separator cannot be checked
Main_Select ==
    /\ pc = "prompt"
    /\ \E picked \in SUBSET { i \in 1..Len(choices) : choices[i].kind = "choice" } :
          /\ picked # {}
          /\ selectedSkills' = Picked(choices, picked, 1)
    /\ pc' = "install"
    /\ UNCHANGED <<fs, listing, repositoryPath, availableSkills, scanErrors, choices,
                   idx, ops, out, errorMessage, run, fsAtInstall, fsAfterFirst>>

------------------------------------------------------------------------------
(* installSkills, index.js 118-138, over fs-extra's ensureDir, remove, copy *)

\* fs.ensureDir throws when a component of the path exists and is a file
EnsureDirThrows(f, p) == \E q \in Ancestors(p) : q \in DOMAIN f /\ f[q].kind = "file"

\* fs.ensureDir: the directory and its missing ancestors are created
EnsureDir(f, p) == f @@ [q \in Ancestors(p) \ DOMAIN f |-> DirNode(TRUE)]

\* fs.remove: the path and everything below it
Remove(f, p) == [q \in { x \in DOMAIN f : ~IsPrefix(p, x) } |-> f[q]]

\* fs.copy throws when the source does not exist, or the destination is the
\* source or lies inside it
CopyThrows(f, src, dest) == ~PathExists(f, src) \/ IsPrefix(src, dest)

\* The entries below src, relative to src, restricted to keep, written at dest
CopyOf(f, src, dest, keep) ==
    [q \in { dest \o r : r \in keep } |-> f[src \o SubSeq(q, Len(dest) + 1, Len(q))]]

\* fs.copy(src, dest): the whole tree of src, written over what is at dest
Copy(f, src, dest) == CopyOf(f, src, dest, DOMAIN Subtree(f, src)) @@ f

\* What a copy that fails midway may leave at dest: any part of the tree that
\* holds the parent of each entry it holds, short of the whole.
PartialCopies(f, src) ==
    LET all == DOMAIN Subtree(f, src)
    IN  { k \in SUBSET all : k # all /\ \A r \in k : r = <<>> \/ Parent(r) \in k }

\* path.join(targetPath, skill.name)
TargetSkillPath(skill) == Append(TargetPath, skill.name)

\* 127-130: if (await fs.pathExists(targetSkillPath)) await fs.remove(...)
RemoveExisting(f, target) == IF PathExists(f, target) THEN Remove(f, target) ELSE f

InstallSkillRemoveElseCopy(f, skill) ==
    IF PathExists(f, TargetSkillPath(skill))
    THEN Remove(f, TargetSkillPath(skill))
    ELSE Copy(f, skill.path, TargetSkillPath(skill))

\* One iteration of the loop 124-135 in which nothing throws
InstallSkill(f, skill) ==
    Copy(RemoveExisting(f, TargetSkillPath(skill)), skill.path, TargetSkillPath(skill))

RemoveOp(i, target) == [op |-> "remove", skill |-> i, path |-> target]
CopyOp(i, target) == [op |-> "copy", skill |-> i, path |-> target]

\* The fs calls of iteration i up to and including the copy
IterationOps(f, i, target) ==
    (IF PathExists(f, target) THEN <<RemoveOp(i, target)>> ELSE <<>>)
        \o <<CopyOp(i, target)>>

\* 119-122: ensureDir of the target base, then the announcement
Install_Begin ==
    /\ pc = "install"
    /\ fsAtInstall' = IF run = 1 THEN fs ELSE fsAtInstall
    /\ IF EnsureDirThrows(fs, TargetPath)
       THEN /\ pc' = "exit1"
            /\ errorMessage' = [kind |-> "ensureDir", path |-> TargetPath]
            /\ UNCHANGED <<fs, out>>
       ELSE /\ pc' = "loop"
            /\ fs' = EnsureDir(fs, TargetPath)
            /\ out' = Append(out, [kind |-> "installing", skill |-> Len(selectedSkills)])
            /\ UNCHANGED errorMessage
    /\ idx' = 1
    /\ UNCHANGED <<listing, repositoryPath, availableSkills, scanErrors, choices,
                   selectedSkills, ops, run, fsAfterFirst>>

\* 124-135, one skill: remove what is at the target, copy, report.  A rejected
\* fs call rejects installSkills and main(); main().catch prints error.message,
\* which for an fs error names the call and its path, and exits with 1.
Install_Iteration ==
    /\ pc = "loop"
    /\ idx <= Len(selectedSkills)
    /\ LET skill  == selectedSkills[idx]
           target == TargetSkillPath(skill)
           f1     == RemoveExisting(fs, target)
       IN  \/ \* fs.remove rejects (EACCES, EBUSY): nothing is removed
              /\ PathExists(fs, target)
              /\ fs' = fs
              /\ ops' = Append(ops, RemoveOp(idx, target))
              /\ pc' = "exit1"
              /\ errorMessage' = [kind |-> "remove", path |-> target]
              /\ UNCHANGED <<out, idx>>
           \/ \* fs.copy rejects: its own checks, or an I/O error midway
              /\ \/ CopyThrows(f1, skill.path, target) /\ fs' = f1
                 \/ /\ ~CopyThrows(f1, skill.path, target)
                    /\ \E keep \in PartialCopies(f1, skill.path) :
                          fs' = CopyOf(f1, skill.path, target, keep) @@ f1
              /\ ops' = ops \o IterationOps(fs, idx, target)
              /\ pc' = "exit1"
              /\ errorMessage' = [kind |-> "copy", path |-> skill.path]
              /\ UNCHANGED <<out, idx>>
           \/ \* both succeed
              /\ ~CopyThrows(f1, skill.path, target)
              /\ fs' = InstallSkill(fs, skill)
              /\ ops' = ops \o IterationOps(fs, idx, target)
              /\ out' = Append(out, [kind |-> "installed", skill |-> idx])
              /\ idx' = idx + 1
              /\ UNCHANGED <<pc, errorMessage>>
    /\ UNCHANGED <<listing, repositoryPath, availableSkills, scanErrors, choices,
                   selectedSkills, run, fsAtInstall, fsAfterFirst>>

\* 137: the loop is over, 'Skills installed successfully!'
Install_Finish ==
    /\ pc = "loop"
    /\ idx > Len(selectedSkills)
    /\ out' = Append(out, [kind |-> "success", skill |-> 0])
    /\ pc' = "done"
    /\ fsAfterFirst' = IF run = 1 THEN fs ELSE fsAfterFirst
    /\ UNCHANGED <<fs, listing, repositoryPath, availableSkills, scanErrors, choices,
                   selectedSkills, idx, ops, errorMessage, run, fsAtInstall>>

\* installSkills called once more with the same selection and target
Install_Again ==
    /\ pc = "done"
    /\ run = 1
    /\ run' = 2
    /\ pc' = "install"
    /\ ops' = <<>>
    /\ out' = <<>>
    /\ UNCHANGED <<fs, listing, repositoryPath, availableSkills, scanErrors, choices,
                   selectedSkills, idx, errorMessage, fsAtInstall, fsAfterFirst>>

------------------------------------------------------------------------------
(* The whole program *)

\* 'old', 'z': names found in a destination that was installed to before
OldName == <<111,108,100>>
OtherName == <<122>>

\* What is under the working directory before the run: nothing; an earlier
\* install (a directory a with a stale file, a file b, an unrelated z); or a
\* file named .claude
DestStates ==
    LET root  == MkRepo(TargetDir, {}, {}, NoFaults)
        base  == [q \in Ancestors(TargetPath) |-> DirNode(TRUE)]
        a     == Append(TargetPath, <<97>>)
        stale == FileNode(<< [key |-> "text", value |-> OldName] >>, TRUE)
    IN  { root,
          (a :> DirNode(TRUE)) @@ (Append(a, OldName) :> stale)
              @@ (Append(TargetPath, <<98>>) :> stale)
              @@ (Append(TargetPath, OtherName) :> DirNode(TRUE)) @@ base,
          (SubSeq(TargetPath, 1, 1) :> stale) @@ root }

Leaves(D) == { d \in D : \A e \in D : Parent(e) # d }

\* The repository is outside the working directory, over any earlier state of
\* the destination, or it is the directory .claude/skills itself.  Every leaf
\* directory holds a skill.md (an empty category yields nothing to install).
Init ==
    /\ listing \in Listings
    /\ \E D \in TreesUpTo(MaxRepoDirs) : \E S \in SUBSET D :
          /\ Leaves(D) \subseteq S
          /\ \/ /\ repositoryPath = ExternalRepo
                /\ \E dest \in DestStates : fs = MkRepo(ExternalRepo, D, S, NoFaults) @@ dest
             \/ /\ repositoryPath = TargetPath
                /\ fs = MkRepo(TargetPath, D, S, NoFaults)
    /\ InitProgram

Next ==
    \/ Main_Scan
    \/ Main_Group
    \/ Main_Select
    \/ Install_Begin
    \/ Install_Iteration
    \/ Install_Finish
    \/ Install_Again

Spec == Init /\ [][Next]_vars

NextScan == Main_Scan \/ Main_Group

SpecScan == InitScan /\ [][NextScan]_vars


------------------------------------------------------------------------------
(* Properties of the scan *)

\* scanSkills has returned in main()
ScanReturned == pc # "start" /\ PathExists(fs, repositoryPath)

Records == { availableSkills[i] : i \in 1..Len(availableSkills) }

HasDescriptor(f, d) == PathExists(f, Append(d, SkillMd))

\* The directories strictly between the repository root and d
Between(root, d) == { q \in Ancestors(d) : IsPrefix(root, q) /\ q # root /\ q # d }

\* d lies below the root, and the directories from the root down to its parent
\* are categories the scan can list: directories without a descriptor (the
\* root may hold one) that readdir can read.
Visited(f, root, d) ==
    /\ IsPrefix(root, d) /\ d # root
    /\ IsDirectory(f, d)
    /\ CanReaddir(f, root)
    /\ \A q \in Between(root, d) : CanReaddir(f, q) /\ ~HasDescriptor(f, q)

\* C4: every record's category is the '/'-joined directory names from below the
\* repository root down to the skill's parent, and it is empty exactly when the
\* skill directory is a direct child of the root.
C4_CategoryIsJoinedParentPath ==
    ScanReturned =>
        \A r \in Records :
            /\ IsPrefix(repositoryPath, r.path) /\ r.path # repositoryPath
            /\ HasDescriptor(fs, r.path)
            /\ r.name = Last(r.path)
            /\ r.category = JoinPath(SubSeq(r.path, Len(repositoryPath) + 1, Len(r.path) - 1))
            /\ (r.category = <<>> <=> Parent(r.path) = repositoryPath)

\* C4's case: the scan returned a skill two categories deep, its category two
\* names joined by one '/'
C4_Witness ==
    /\ ScanReturned
    /\ \E r \in Records : Len(r.path) = Len(repositoryPath) + 3 /\ Len(r.category) = 3

\* C5 (as claimed): every directory the scan visits that directly holds a
\* readable skill.md is reported by exactly one record, and no record lies
\* beneath a directory that holds a descriptor.
C5_SkillDirectoryReportedOnce ==
    ScanReturned =>
        /\ \A d \in DOMAIN fs :
              (Visited(fs, repositoryPath, d) /\ CanReadFile(fs, Append(d, SkillMd)))
                  => Cardinality({ i \in 1..Len(availableSkills) :
                                       availableSkills[i].path = d }) = 1
        /\ \A r \in Records : \A q \in Between(repositoryPath, r.path) :
              ~HasDescriptor(fs, q)

\* The filesystem with every directory listable
AllListable(f) ==
    [p \in DOMAIN f |-> IF f[p].kind = "dir" THEN DirNode(TRUE) ELSE f[p]]

\* The directories whose listing fails when the scan asks for it: unreadable,
\* and not skill directories, which the scan never lists (the root is always
\* listed)
Unlistable(f, root) ==
    { p \in DOMAIN f : /\ f[p].kind = "dir" /\ ~f[p].readable
                       /\ (p = root \/ ~HasDescriptor(f, p)) }

UnderUnlistable(f, root, p) == \E u \in Unlistable(f, root) : IsPrefix(u, p)

\* Every skill.md there is can be read
NoUnreadableDescriptor(f) ==
    \A p \in DOMAIN f : (p # <<>> /\ Last(p) = SkillMd) => CanReadFile(f, p)

RECURSIVE SeqToSet(_)
SeqToSet(q) == IF q = <<>> THEN {} ELSE {Head(q)} \cup SeqToSet(Tail(q))

\* C6: a directory that cannot be listed costs the scan exactly its own
\* subtree.  scanDirectory returns; the records are those of the scan of the
\* same tree with every directory listable, less the ones under an unlistable
\* directory, in the same order; each unlistable directory the scan comes to is
\* reported; and when every descriptor can be read, the records are exactly the
\* skill directories the scan can reach.
C6_UnreadableDirectoryCostsItsSubtree ==
    ScanReturned =>
        /\ pc \in {"scanned", "exit0", "prompt", "exit1"}
        /\ availableSkills =
              SelectSeq(ScanSkills(AllListable(fs), listing, repositoryPath).skills,
                        LAMBDA r : ~UnderUnlistable(fs, repositoryPath, r.path))
        /\ \A r \in Records : ~UnderUnlistable(fs, repositoryPath, r.path)
        /\ NoUnreadableDescriptor(fs) =>
              /\ { r.path : r \in Records } =
                    { d \in DOMAIN fs : Visited(fs, repositoryPath, d)
                                           /\ HasDescriptor(fs, d) }
              /\ SeqToSet(scanErrors) =
                    { u \in Unlistable(fs, repositoryPath) :
                         u = repositoryPath \/ Visited(fs, repositoryPath, u) }

\* C6's case: an unlistable directory with a skill beneath it was reported, the
\* skill beneath it is missing, and a sibling listed after it was found
C6_Witness ==
    /\ ScanReturned
    /\ \E u \in Unlistable(fs, repositoryPath) :
          /\ u \in SeqToSet(scanErrors)
          /\ HasDescriptor(fs, Append(u, <<97>>))
          /\ \E r \in Records :
                /\ Parent(r.path) = Parent(u)
                /\ \E i, j \in 1..Len(listing) :
                      i < j /\ listing[i] = Last(u) /\ listing[j] = Last(r.path)

------------------------------------------------------------------------------
(* Descriptions: one skill whose descriptor is drawn from a range of texts *)

MaxRawLength == 52

\* A text of n letters in which the place of every letter shows
TextOf(n) == [i \in 1..n |-> 65 + (i % 26)]

\* What may follow 'description:' on its line: a text of up to MaxRawLength
\* letters, with or without a blank before and after it (the pattern's (.+)
\* needs one character at least)
RawDescriptions ==
    { lead \o TextOf(n) \o trail :
          n \in 0..MaxRawLength, lead \in {<<>>, Space}, trail \in {<<>>, Space} } \ {<<>>}

\* A descriptor with the description line alone, one where a second description
\* line follows a name line, and one without a description
DescriptorsOf(raw) ==
    { << [key |-> "description", value |-> raw] >>,
      << [key |-> "name", value |-> <<83>>],
         [key |-> "description", value |-> raw],
         [key |-> "description", value |-> TextOf(MaxRawLength)] >>,
      << [key |-> "name", value |-> raw] >> }

InitExtract ==
    /\ repositoryPath = ExternalRepo
    /\ listing \in Listings
    /\ \E raw \in RawDescriptions : \E content \in DescriptorsOf(raw) :
          fs = [MkRepo(ExternalRepo, {<< <<97>> >>}, {<< <<97>> >>}, NoFaults)
                   EXCEPT ![ExternalRepo \o << <<97>>, SkillMd >>] = FileNode(content, TRUE)]
    /\ InitProgram

SpecExtract == InitExtract /\ [][NextScan]_vars

\* What the scan extracted from the descriptor of record r before truncating
Extracted(r) == ExtractDescription(fs[Append(r.path, SkillMd)].content)

\* C9: a description is at most 50 long; one extracted longer than 50 is its
\* first 47 characters and '...', 50 in all; one of 50 or fewer, the default
\* 'No description' included, is the extracted text unchanged.
C9_DescriptionAtMost50 ==
    ScanReturned =>
        \A r \in Records :
            /\ Len(r.description) <= 50
            /\ Len(Extracted(r)) > 50 =>
                  /\ Len(r.description) = 50
                  /\ SubSeq(r.description, 1, 47) = SubSeq(Extracted(r), 1, 47)
                  /\ SubSeq(r.description, 48, 50) = <<46, 46, 46>>
            /\ Len(Extracted(r)) <= 50 => r.description = Extracted(r)

\* C9's case: a description of exactly 51 characters was written with blanks
\* around it and came out as 47 characters and the ellipsis
C9_Witness ==
    /\ ScanReturned
    /\ \E r \in Records :
          /\ Len(Extracted(r)) = 51
          /\ Len(MatchField(fs[Append(r.path, SkillMd)].content, "description").text) = 53
          /\ Len(r.description) = 50
          /\ r.description[50] = 46

------------------------------------------------------------------------------
(* Grouping: a few skills spread over category directories of chosen names *)

MaxGroupSkills == 3

\* 'Alpha', 'Zeta', 'Uncategorized', 'constructor' as directory names
GroupNames ==
    { <<65,108,112,104,97>>, <<90,101,116,97>>, Uncategorized,
      <<99,111,110,115,116,114,117,99,116,111,114>> }

\* 's1', 's2', ...
SkillName(i) == <<115, 48 + i>>

\* Skill i lies in the category directory where[i], or in the root for <<>>
MkGroupRepo(root, where) ==
    LET dirOf(i) == IF where[i] = <<>> THEN Append(root, SkillName(i))
                    ELSE root \o <<where[i], SkillName(i)>>
        skillDirs == { dirOf(i) : i \in DOMAIN where }
        dirs  == UNION { Ancestors(d) : d \in skillDirs }
        files == { Append(d, SkillMd) : d \in skillDirs }
    IN  [p \in dirs \cup files |->
            IF p \in dirs THEN DirNode(TRUE) ELSE FileNode(DescriptorOf(Parent(p)), TRUE)]

InitGroup ==
    /\ repositoryPath = ExternalRepo
    /\ \E k \in 1..MaxGroupSkills :
          /\ \E where \in [1..k -> GroupNames \cup {<<>>}] :
                fs = MkGroupRepo(ExternalRepo, where)
          /\ \E o \in Orders(GroupNames) : \E so \in Orders({ SkillName(i) : i \in 1..k }) :
                listing = o \o so \o <<SkillMd>>
    /\ InitProgram

SpecGroup == InitGroup /\ [][NextScan]_vars

\* The labels of the separators, in the order of the choices
RECURSIVE Labels(_)
Labels(items) ==
    IF items = <<>> THEN <<>>
    ELSE (IF Head(items).kind = "separator" THEN <<Head(items).label>> ELSE <<>>)
             \o Labels(Tail(items))

\* The label of the separator the choice at position i stands under
LabelAbove(items, i) ==
    LET above == { j \in 1..i : items[j].kind = "separator" }
    IN  IF above = {} THEN <<>>
        ELSE items[CHOOSE j \in above : \A m \in above : m <= j].label

\* The positions at which skill is offered
PositionsOf(items, skill) ==
    { i \in 1..Len(items) : items[i].kind = "choice" /\ items[i].value = skill }

\* main() got past the grouping, one way or the other
GroupingRan == ScanReturned /\ pc \notin {"start", "scanned", "exit0"}

\* C8 (as claimed): the labels of the choices are strictly ascending, each once,
\* with 'Uncategorized' for the empty category; every scanned skill is offered
\* exactly once, under the label of its category; the skills of one category
\* keep their scan order.
C8_ChoicesGroupedAndSorted ==
    GroupingRan =>
        /\ \A i, j \in 1..Len(Labels(choices)) :
              i < j => StringLess(Labels(choices)[i], Labels(choices)[j])
        /\ \A k \in 1..Len(availableSkills) :
              /\ Cardinality(PositionsOf(choices, availableSkills[k])) = 1
              /\ \A i \in PositionsOf(choices, availableSkills[k]) :
                    LabelAbove(choices, i) = CategoryLabel(availableSkills[k].category)
        /\ \A k1, k2 \in 1..Len(availableSkills) :
              (k1 < k2 /\ availableSkills[k1].category = availableSkills[k2].category)
                  => \A i \in PositionsOf(choices, availableSkills[k1]) :
                        \A j \in PositionsOf(choices, availableSkills[k2]) : i < j


------------------------------------------------------------------------------
(* Properties of the install *)

\* installSkills has been entered
InstallEntered ==
    \/ pc \in {"loop", "done"}
    \/ pc = "exit1" /\ errorMessage.kind \in {"ensureDir", "remove", "copy"}

Selected == 1..Len(selectedSkills)

\* The source directory of the k-th selected skill as it was when installSkills
\* was first entered
SourceAtInstall(k) == Subtree(fsAtInstall, selectedSkills[k].path)

\* What is at the k-th selected skill's target now
Installed(k) == Subtree(fs, TargetSkillPath(selectedSkills[k]))

\* C1 (as claimed): when the copy of the N-th skill fails, skills 1..N-1 are
\* still fully installed, no remove or copy was attempted for a later skill,
\* the run ends with exit code 1 and a message naming skill N, and the success
\* message was not printed.
C1_FailureLeavesEarlierSkills ==
    (run = 1 /\ pc = "exit1" /\ errorMessage.kind = "copy") =>
        /\ \A k \in 1..(idx - 1) : Installed(k) = SourceAtInstall(k)
        /\ \A i \in 1..Len(ops) : ops[i].skill <= idx
        /\ errorMessage.path = selectedSkills[idx].path
        /\ \A i \in 1..Len(out) : out[i].kind # "success"

\* The sources of the selected skills are, after the first call, what they
\* were before it
SourcesUnmodified ==
    \A k \in Selected :
        Subtree(fsAfterFirst, selectedSkills[k].path) = SourceAtInstall(k)

\* C2: when installSkills has returned twice for the same selection and the
\* sources were not modified in between, the filesystem after the second call
\* is the filesystem after the first.
C2_InstallIdempotent ==
    (pc = "done" /\ run = 2 /\ SourcesUnmodified) => fs = fsAfterFirst

\* C2's case: two skills were installed twice over a destination that held a
\* stale directory and a stale file under their names, and the first call
\* changed the filesystem
C2_Witness ==
    /\ pc = "done" /\ run = 2 /\ SourcesUnmodified
    /\ Len(selectedSkills) = 2
    /\ \A k \in Selected : PathExists(fsAtInstall, TargetSkillPath(selectedSkills[k]))
    /\ PathExists(fsAtInstall, TargetPath \o << <<97>>, OldName >>)
    /\ ~PathExists(fs, TargetPath \o << <<97>>, OldName >>)
    /\ fsAfterFirst # fsAtInstall

\* C3 (as claimed): after installSkills returned, the target directory of every
\* selected skill has exactly the content of that skill's source directory.
C3_TargetMirrorsSource ==
    (run = 1 /\ pc = "done") => \A k \in Selected : Installed(k) = SourceAtInstall(k)

\* The names installSkills may write under the target base
SelectedNames == { selectedSkills[k].name : k \in Selected }

\* C10 (as claimed): wherever the repository lies, installSkills leaves the
\* source directory of every selected skill as it was, and every entry under
\* .claude/skills that is not the target of a selected skill.
C10_InstallTouchesOnlyTargets ==
    (run = 1 /\ InstallEntered) =>
        /\ \A k \in Selected : Subtree(fs, selectedSkills[k].path) = SourceAtInstall(k)
        /\ \A p \in DOMAIN fsAtInstall :
              (/\ IsPrefix(TargetPath, p) /\ p # TargetPath
               /\ p[Len(TargetPath) + 1] \notin SelectedNames)
                  => (p \in DOMAIN fs /\ fs[p] = fsAtInstall[p])

====
